---------------------------- MODULE Spec2Model ----------------------------
(***************************************************************************)
(* Luxuria API (src/main.py): the catalog-resolution fallback protocol.    *)
(* Each request handler is one atomic action.  The document store          *)
(* (module `database`: db, get_documents, create_document) is an external  *)
(* collaborator with a find/insert interface; it may be unavailable and    *)
(* any single operation on it may raise.                                   *)
(*                                                                         *)
(* An ObjectId is kept as its canonical hexadecimal text, tagged so that   *)
(* it is not a string.  An Optional value is <<>> (None) or <<v>>.         *)
(***************************************************************************)
EXTENDS Integers, Sequences, FiniteSets, TLC

VARIABLES
    storeUp,                  \* the store is configured and reachable
    product,                  \* collection "product": sequence of documents
    order,                    \* collection "order"
    distributorapplication,   \* collection "distributorapplication"
    req,                      \* the request handled last
    resp,                     \* its response
    calls,                    \* the store operations that request performed
    tracking,                 \* observer: fallback reads are being recorded
    memo                      \* observer: one recorded fallback read, or <<>>

vars == <<storeUp, product, order, distributorapplication,
          req, resp, calls, tracking, memo>>

(* ------------------------------ bounds --------------------------------- *)

\* Size of the catalog a store may already hold when the process starts.
BulkSize == 100
\* Successful inserts explored, over the three collections together.
MaxInserts == 2

(* ------------------------------ values --------------------------------- *)

None == <<>>
Some(v) == <<v>>

\* Python truthiness of an Optional[str]: None and "" are falsy.
Truthy(opt) == opt # None /\ opt[1] # ""

ID_ROYAL_CHRONO == "demo-royal-chrono"
ID_DIAMOND_AURORA == "demo-diamond-aurora"
ID_MALDIVES_ESCAPE == "demo-maldives-escape"
ID_SILK_SOFA == "demo-silk-sofa"
ID_PLATINUM_MASSAGER == "demo-platinum-massager"
ID_DEMO_ORDER == "demo-order-1234"
ID_DEMO_APPLICATION == "demo-application-1234"

\* Variant: a sample whose id looks like a store-generated one.
sample_products_colliding ==
    << [_id |-> "000000000000000000000001",
        title |-> "Royal Chrono 42mm",
        description |-> "Swiss automatic chronograph crafted in 18k rose gold with sapphire crystal.",
        price |-> 18990,
        category |-> "watches",
        images |-> << "https://images.unsplash.com/photo-1518544801976-3e188ea47b1d?q=80&w=1600&auto=format&fit=crop" >>,
        in_stock |-> TRUE,
        featured |-> TRUE] >>

sample_products ==
    << [_id |-> ID_ROYAL_CHRONO,
        title |-> "Royal Chrono 42mm",
        description |-> "Swiss automatic chronograph crafted in 18k rose gold with sapphire crystal.",
        price |-> 18990,
        category |-> "watches",
        images |-> << "https://images.unsplash.com/photo-1518544801976-3e188ea47b1d?q=80&w=1600&auto=format&fit=crop",
                      "https://images.unsplash.com/photo-1523170335258-f5ed11844a49?q=80&w=1600&auto=format&fit=crop" >>,
        in_stock |-> TRUE,
        featured |-> TRUE],
       [_id |-> ID_DIAMOND_AURORA,
        title |-> "Aurora Diamond Necklace",
        description |-> "Hand-set VS1 diamonds on platinum. Timeless brilliance for evening glamour.",
        price |-> 12950,
        category |-> "jewelry",
        images |-> << "https://images.unsplash.com/photo-1520962918287-7448c2878f65?q=80&w=1600&auto=format&fit=crop" >>,
        in_stock |-> TRUE,
        featured |-> TRUE],
       [_id |-> ID_MALDIVES_ESCAPE,
        title |-> "Maldives Water Villa Escape",
        description |-> "5 nights in an overwater villa with private plunge pool and butler service.",
        price |-> 8990,
        category |-> "holidays",
        images |-> << "https://images.unsplash.com/photo-1500375592092-40eb2168fd21?q=80&w=1600&auto=format&fit=crop" >>,
        in_stock |-> TRUE,
        featured |-> TRUE],
       [_id |-> ID_SILK_SOFA,
        title |-> "Silk & Walnut Lounge Sofa",
        description |-> "Handcrafted Italian sofa in walnut with bespoke silk upholstery.",
        price |-> 7490,
        category |-> "home",
        images |-> << "https://images.unsplash.com/photo-1501045661006-fcebe0257c3f?q=80&w=1600&auto=format&fit=crop" >>,
        in_stock |-> TRUE,
        featured |-> FALSE],
       [_id |-> ID_PLATINUM_MASSAGER,
        title |-> "Platinum Deep Tissue Massager",
        description |-> "Medical-grade percussive therapy device with intelligent pressure control.",
        price |-> 499,
        category |-> "health",
        images |-> << "https://images.unsplash.com/photo-1615634260167-c8cdede054de?q=80&w=1600&auto=format&fit=crop" >>,
        in_stock |-> TRUE,
        featured |-> FALSE] >>

(* ----------------------- bson.ObjectId and str() ----------------------- *)

HexLower == <<"0","1","2","3","4","5","6","7","8","9","a","b","c","d","e","f">>
HexUpper == <<"0","1","2","3","4","5","6","7","8","9","A","B","C","D","E","F">>
HexDigits == {HexLower[i] : i \in 1..16} \cup {HexUpper[i] : i \in 1..16}

\* ObjectId.is_valid on a str: 24 characters, all hexadecimal digits.
is_valid(s) == Len(s) = 24 /\ \A i \in 1..24 : SubSeq(s, i, i) \in HexDigits

Nibble(ch) == (CHOOSE i \in 1..16 : HexLower[i] = ch \/ HexUpper[i] = ch) - 1

RECURSIVE LowerHex(_)
LowerHex(s) ==
    IF s = "" THEN ""
    ELSE HexLower[Nibble(SubSeq(s, 1, 1)) + 1] \o LowerHex(SubSeq(s, 2, Len(s)))

\* ObjectId(s) for a valid s: the 12 bytes the digits spell, kept as their
\* canonical (lower-case) hexadecimal text.
ObjectId(s) == [oid |-> LowerHex(s)]

\* str(ObjectId): 24 lower-case hexadecimal digits.
StrObjectId(o) == o.oid

\* str(x) of an image reference (a URL object): its text.
StrUrl(x) == x.url

(* --------------------------- the store --------------------------------- *)

\* The n-th identifier the store generates for a collection.
NewObjectId(n) ==
    [oid |-> "000000000000000000000" \o HexLower[((n \div 256) % 16) + 1]
               \o HexLower[((n \div 16) % 16) + 1] \o HexLower[(n % 16) + 1]]

Take(s, n) == IF Len(s) <= n THEN s ELSE SubSeq(s, 1, n)

\* A find filter: each key is None (unconstrained) or Some(value).
NoFilter == [_id |-> None, category |-> None, featured |-> None]

Matches(d, q) ==
    /\ q._id # None => d._id = q._id[1]
    /\ q.category # None => d.category = q.category[1]
    /\ q.featured # None => d.featured = q.featured[1]

StoreFails(err) == ~storeUp \/ err
StoreMessage(err) == IF ~storeUp THEN "Database not available" ELSE "store operation failed"

\* get_documents(collection, filter, limit): the first `limit` documents of
\* the collection that match, or an exception.
get_documents(coll, q, limit, err) ==
    IF StoreFails(err)
    THEN [ok |-> FALSE, docs |-> <<>>, msg |-> StoreMessage(err)]
    ELSE [ok |-> TRUE,
          docs |-> Take(SelectSeq(coll, LAMBDA d : Matches(d, q)), limit),
          msg |-> ""]

\* create_document(collection, data): insert one document under a freshly
\* generated id and return str(id), or an exception that persists nothing.
create_document(coll, data, err) ==
    IF StoreFails(err)
    THEN [ok |-> FALSE, id |-> "", coll |-> coll, msg |-> StoreMessage(err)]
    ELSE [ok |-> TRUE,
          id |-> StrObjectId(NewObjectId(Len(coll) + 1)),
          coll |-> Append(coll, [_id |-> NewObjectId(Len(coll) + 1)] @@ data),
          msg |-> ""]

(* ------------------------------ inputs --------------------------------- *)

ID_UNKNOWN == "demo-unknown"
ID_NONHEX24 == "demo-0123456789abcdef012"
ID_UPPER_A == "00000000000000000000000A"
ID_ABSENT_OID == "ffffffffffffffffffffffff"

StaticIds == {sample_products[i]._id : i \in 1..Len(sample_products)}

ProductIds ==
    StaticIds \cup
    { ID_UNKNOWN, ID_NONHEX24, ID_UPPER_A, ID_ABSENT_OID,
      StrObjectId(NewObjectId(1)), StrObjectId(NewObjectId(BulkSize + 1)) }

CategoryInputs == { None, Some(""), Some("watches"), Some("cars") }
FeaturedInputs == { None, Some(TRUE), Some(FALSE) }

\* Valid Product payloads (schemas.Product).
ProductPayloads ==
    { [title |-> "Gold Tourbillon", description |-> "", price |-> 25000,
       category |-> "watches", images |-> << [url |-> "https://cdn.example/t.jpg"] >>,
       in_stock |-> TRUE, featured |-> TRUE],
      [title |-> "Vintage Roadster", description |-> "", price |-> 0,
       category |-> "cars", images |-> <<>>,
       in_stock |-> FALSE, featured |-> FALSE] }

CheckoutPayloads ==
    { [items |-> << [product_id |-> "demo-royal-chrono", title |-> "Royal Chrono 42mm",
                     quantity |-> 1, price |-> 18990] >>,
       customer_name |-> "A", customer_email |-> "a@example.com",
       address |-> "1 Main St", city |-> "Paris", country |-> "FR"] }

ApplicationPayloads ==
    { [name |-> "B", email |-> "b@example.com", company |-> "Acme"] }

\* A catalog document a store may already hold when the process starts.
SeedDoc(i) ==
    IF i % 2 = 0
    THEN [_id |-> NewObjectId(i), title |-> "Catalog item",
          category |-> "watches", featured |-> (i % 4 = 0),
          images |-> << [url |-> "https://cdn.example/seed.jpg"] >>]
    ELSE [_id |-> NewObjectId(i), title |-> "Catalog item",
          category |-> "jewelry", featured |-> FALSE]

Seed(n) == [i \in 1..n |-> SeedDoc(i)]

SeedSize == IF product # <<>> /\ product[1] = SeedDoc(1) THEN BulkSize ELSE 0

(* ----------------------------- handlers -------------------------------- *)

\* Variant: the listing query sent without an effective limit.
ListLimitDropped == 100 * 100

\* limit= of the listing query.
ListLimit == 100

\* One store operation as the observer logs it: n is the number of documents
\* a find returned.
FindCall(r) ==
    [op |-> "find", collection |-> "product", ok |-> r.ok, n |-> Len(r.docs), msg |-> r.msg]
InsertCall(c, r) ==
    [op |-> "insert", collection |-> c, ok |-> r.ok, n |-> 0, msg |-> r.msg]

\* The filter the listing sends to the store.
filter_query(category, featured) ==
    [_id |-> None,
     category |-> IF Truthy(category) THEN category ELSE None,
     featured |-> IF featured # None THEN featured ELSE None]

\* d["_id"] = str(d.get("_id")); images stringified when present.
normalize(d) ==
    LET d1 == [d EXCEPT !._id = StrObjectId(d._id)]
    IN  IF "images" \in DOMAIN d1
        THEN [d1 EXCEPT !.images = [i \in 1..Len(d.images) |-> StrUrl(d.images[i])]]
        ELSE d1

\* The sample catalog filtered locally.
fallback_products(category, featured) ==
    LET prods == sample_products
        byCategory == IF Truthy(category)
                      THEN SelectSeq(prods, LAMBDA p : p.category = category[1])
                      ELSE prods
    IN  IF featured # None
        THEN SelectSeq(byCategory, LAMBDA p : p.featured = featured[1])
        ELSE byCategory

\* Variant: the filters are skipped when the store query raised.
list_products_unfiltered_on_error(category, featured, err) ==
    LET r == get_documents(product, filter_query(category, featured), ListLimit, err)
        docs == [i \in 1..Len(r.docs) |-> normalize(r.docs[i])]
    IN  IF r.ok /\ docs # <<>>
        THEN [resp |-> [status |-> 200, body |-> docs],
              calls |-> << FindCall(r) >>, source |-> "store"]
        ELSE IF r.ok
        THEN [resp |-> [status |-> 200, body |-> fallback_products(category, featured)],
              calls |-> << FindCall(r) >>, source |-> "static"]
        ELSE [resp |-> [status |-> 200, body |-> sample_products],
              calls |-> << FindCall(r) >>, source |-> "static"]

\* Variant: a short store result is padded with the samples.
list_products_pads_with_samples(category, featured, err) ==
    LET r == get_documents(product, filter_query(category, featured), ListLimit, err)
        docs == [i \in 1..Len(r.docs) |-> normalize(r.docs[i])]
    IN  IF r.ok /\ Len(docs) >= Len(sample_products)
        THEN [resp |-> [status |-> 200, body |-> docs],
              calls |-> << FindCall(r) >>, source |-> "store"]
        ELSE [resp |-> [status |-> 200,
                        body |-> docs \o fallback_products(category, featured)],
              calls |-> << FindCall(r) >>, source |-> "static"]

list_products(category, featured, err) ==
    LET r == get_documents(product, filter_query(category, featured), ListLimit, err)
        docs == [i \in 1..Len(r.docs) |-> normalize(r.docs[i])]
    IN  IF r.ok /\ docs # <<>>
        THEN [resp |-> [status |-> 200, body |-> docs],
              calls |-> << FindCall(r) >>, source |-> "store"]
        ELSE [resp |-> [status |-> 200, body |-> fallback_products(category, featured)],
              calls |-> << FindCall(r) >>, source |-> "static"]

NotFound == [status |-> 404, detail |-> "Product not found"]

\* Variant: the search stops one short of the end of the catalog.
sample_by_id_skips_last(product_id) ==
    LET found == SelectSeq(SubSeq(sample_products, 1, Len(sample_products) - 1),
                           LAMBDA p : p._id = product_id)
    IN  IF found # <<>>
        THEN [resp |-> [status |-> 200, body |-> found[1]], source |-> "static"]
        ELSE [resp |-> NotFound, source |-> "none"]

\* The search of the sample catalog for an exact id.
sample_by_id(product_id) ==
    LET found == SelectSeq(sample_products, LAMBDA p : p._id = product_id)
    IN  IF found # <<>>
        THEN [resp |-> [status |-> 200, body |-> found[1]], source |-> "static"]
        ELSE [resp |-> NotFound, source |-> "none"]

\* Variant: an exception of the store lookup is not caught.
get_product_surfaces_error(product_id, err) ==
    IF is_valid(product_id)
    THEN LET r == get_documents(product,
                                [NoFilter EXCEPT !._id = Some(ObjectId(product_id))],
                                1, err)
         IN  IF r.ok /\ r.docs # <<>>
             THEN [resp |-> [status |-> 200, body |-> normalize(r.docs[1])],
                   calls |-> << FindCall(r) >>, source |-> "store"]
             ELSE IF ~r.ok
             THEN [resp |-> [status |-> 500, detail |-> r.msg],
                   calls |-> << FindCall(r) >>, source |-> "none"]
             ELSE [resp |-> sample_by_id(product_id).resp,
                   calls |-> << FindCall(r) >>,
                   source |-> sample_by_id(product_id).source]
    ELSE [resp |-> sample_by_id(product_id).resp,
          calls |-> <<>>,
          source |-> sample_by_id(product_id).source]

get_product(product_id, err) ==
    IF is_valid(product_id)
    THEN LET r == get_documents(product,
                                [NoFilter EXCEPT !._id = Some(ObjectId(product_id))],
                                1, err)
         IN  IF r.ok /\ r.docs # <<>>
             THEN [resp |-> [status |-> 200, body |-> normalize(r.docs[1])],
                   calls |-> << FindCall(r) >>, source |-> "store"]
             ELSE [resp |-> sample_by_id(product_id).resp,
                   calls |-> << FindCall(r) >>,
                   source |-> sample_by_id(product_id).source]
    ELSE [resp |-> sample_by_id(product_id).resp,
          calls |-> <<>>,
          source |-> sample_by_id(product_id).source]

\* Variant: creation degrades like the other writes.
create_product_degrades(payload, err) ==
    LET r == create_document(product, payload, err)
    IN  IF r.ok
        THEN [resp |-> [status |-> 200, body |-> [id |-> r.id]],
              calls |-> << InsertCall("product", r) >>, coll |-> r.coll]
        ELSE [resp |-> [status |-> 200, body |-> [id |-> "demo-product-1234"]],
              calls |-> << InsertCall("product", r) >>, coll |-> r.coll]

create_product(payload, err) ==
    LET r == create_document(product, payload, err)
    IN  IF r.ok
        THEN [resp |-> [status |-> 200, body |-> [id |-> r.id]],
              calls |-> << InsertCall("product", r) >>, coll |-> r.coll]
        ELSE [resp |-> [status |-> 500, detail |-> r.msg],
              calls |-> << InsertCall("product", r) >>, coll |-> r.coll]

\* Variant: a failed insert of the order is surfaced.
checkout_surfaces_error(data, err) ==
    LET r == create_document(order, data, err)
    IN  IF r.ok
        THEN [resp |-> [status |-> 200, body |-> [status |-> "success", order_id |-> r.id]],
              calls |-> << InsertCall("order", r) >>, coll |-> r.coll]
        ELSE [resp |-> [status |-> 500, detail |-> r.msg],
              calls |-> << InsertCall("order", r) >>, coll |-> r.coll]

\* Variant: a failed insert of the order is tried once more.
checkout_retries(data, err) ==
    LET r == create_document(order, data, err)
        r2 == create_document(order, data, err)
    IN  IF r.ok
        THEN [resp |-> [status |-> 200, body |-> [status |-> "success", order_id |-> r.id]],
              calls |-> << InsertCall("order", r) >>, coll |-> r.coll]
        ELSE IF r2.ok
        THEN [resp |-> [status |-> 200, body |-> [status |-> "success", order_id |-> r2.id]],
              calls |-> << InsertCall("order", r), InsertCall("order", r2) >>,
              coll |-> r2.coll]
        ELSE [resp |-> [status |-> 200,
                        body |-> [status |-> "success", order_id |-> ID_DEMO_ORDER]],
              calls |-> << InsertCall("order", r), InsertCall("order", r2) >>,
              coll |-> r2.coll]

checkout(data, err) ==
    LET r == create_document(order, data, err)
    IN  IF r.ok
        THEN [resp |-> [status |-> 200, body |-> [status |-> "success", order_id |-> r.id]],
              calls |-> << InsertCall("order", r) >>, coll |-> r.coll]
        ELSE [resp |-> [status |-> 200,
                        body |-> [status |-> "success", order_id |-> ID_DEMO_ORDER]],
              calls |-> << InsertCall("order", r) >>, coll |-> r.coll]

distributor_apply(apply, err) ==
    LET r == create_document(distributorapplication, apply, err)
    IN  IF r.ok
        THEN [resp |-> [status |-> 200,
                        body |-> [status |-> "received", application_id |-> r.id]],
              calls |-> << InsertCall("distributorapplication", r) >>, coll |-> r.coll]
        ELSE [resp |-> [status |-> 200,
                        body |-> [status |-> "received",
                                  application_id |-> ID_DEMO_APPLICATION]],
              calls |-> << InsertCall("distributorapplication", r) >>, coll |-> r.coll]

(* ------------------------------ actions -------------------------------- *)

NoRequest == [op |-> "none"]

\* A store operation may raise although the store is available.
ErrInputs == IF storeUp THEN BOOLEAN ELSE {FALSE}

\* Inserts made since the process started.
Writes == (Len(product) - SeedSize) + Len(order) + Len(distributorapplication)

\* What identifies a read: the operation and its filters or id.
Key(r) ==
    IF r.op = "list_products"
    THEN [op |-> r.op, category |-> r.category, featured |-> r.featured]
    ELSE [op |-> r.op, product_id |-> r.product_id]


\* The observer may record one fallback read, to compare later ones with.
Observe(source) ==
    /\ tracking' = tracking
    /\ IF tracking /\ memo = <<>> /\ source # "store"
       THEN memo' \in {memo, << [key |-> Key(req'), resp |-> resp', atStart |-> (Writes = 0)] >>}
       ELSE memo' = memo

Init ==
    /\ storeUp \in BOOLEAN
    /\ product \in {<<>>, Seed(BulkSize)}
    /\ order = <<>>
    /\ distributorapplication = <<>>
    /\ req = NoRequest
    /\ resp = NoRequest
    /\ calls = <<>>
    /\ tracking = FALSE
    /\ memo = <<>>

\* The store becomes unavailable, or available again.  No request is in
\* hand then.
StoreToggle ==
    /\ storeUp' = ~storeUp
    /\ req' = NoRequest
    /\ resp' = NoRequest
    /\ calls' = <<>>
    /\ UNCHANGED <<product, order, distributorapplication, tracking, memo>>

ListProducts ==
    \E category \in CategoryInputs, featured \in FeaturedInputs, err \in ErrInputs :
        LET r == list_products(category, featured, err)
        IN  /\ req' = [op |-> "list_products", category |-> category,
                       featured |-> featured, err |-> err]
            /\ resp' = r.resp
            /\ calls' = r.calls
            /\ Observe(r.source)
            /\ UNCHANGED <<storeUp, product, order, distributorapplication>>

GetProduct ==
    \E product_id \in ProductIds, err \in ErrInputs :
        LET r == get_product(product_id, err)
        IN  /\ req' = [op |-> "get_product", product_id |-> product_id, err |-> err]
            /\ resp' = r.resp
            /\ calls' = r.calls
            /\ Observe(r.source)
            /\ UNCHANGED <<storeUp, product, order, distributorapplication>>

CreateProduct ==
    \E payload \in ProductPayloads, err \in ErrInputs :
        LET r == create_product(payload, err)
        IN  /\ StoreFails(err) \/ Writes < MaxInserts
            /\ req' = [op |-> "create_product", payload |-> payload, err |-> err]
            /\ resp' = r.resp
            /\ calls' = r.calls
            /\ product' = r.coll
            /\ UNCHANGED <<storeUp, order, distributorapplication, tracking, memo>>

Checkout ==
    \E data \in CheckoutPayloads, err \in ErrInputs :
        LET r == checkout(data, err)
        IN  /\ StoreFails(err) \/ Writes < MaxInserts
            /\ req' = [op |-> "checkout", payload |-> data, err |-> err]
            /\ resp' = r.resp
            /\ calls' = r.calls
            /\ order' = r.coll
            /\ UNCHANGED <<storeUp, product, distributorapplication, tracking, memo>>

DistributorApply ==
    \E apply \in ApplicationPayloads, err \in ErrInputs :
        LET r == distributor_apply(apply, err)
        IN  /\ StoreFails(err) \/ Writes < MaxInserts
            /\ req' = [op |-> "distributor_apply", payload |-> apply, err |-> err]
            /\ resp' = r.resp
            /\ calls' = r.calls
            /\ distributorapplication' = r.coll
            /\ UNCHANGED <<storeUp, product, order, tracking, memo>>

Next ==
    \/ StoreToggle
    \/ ListProducts
    \/ GetProduct
    \/ CreateProduct
    \/ Checkout
    \/ DistributorApply

Spec == Init /\ [][Next]_vars

\* The same program with the observer recording, started on an empty or
\* absent store.
InitObserved ==
    /\ storeUp \in BOOLEAN
    /\ product = <<>>
    /\ order = <<>>
    /\ distributorapplication = <<>>
    /\ req = NoRequest
    /\ resp = NoRequest
    /\ calls = <<>>
    /\ tracking = TRUE
    /\ memo = <<>>

SpecObserved == InitObserved /\ [][Next]_vars

(* ------------------------------ claims -------------------------------- *)

\* The sample items that satisfy the supplied filters by exact equality, in
\* catalog order.
ExactSubset(c, f) ==
    SelectSeq(sample_products,
              LAMBDA p : /\ c # None => p.category = c[1]
                         /\ f # None => p.featured = f[1])

\* The sample record with the given id, or NotFound.
StaticOutcome(id) ==
    IF \E i \in 1..Len(sample_products) : sample_products[i]._id = id
    THEN [status |-> 200,
          body |-> sample_products[CHOOSE i \in 1..Len(sample_products) :
                                       sample_products[i]._id = id]]
    ELSE [status |-> 404, detail |-> "Product not found"]

\* The last request was a listing whose store query failed or came back empty.
ListFellBack ==
    /\ req.op = "list_products"
    /\ ~calls[1].ok \/ calls[1].n = 0

\* The last request was a detail lookup that did not get a document from the
\* store: no lookup, a failed one, or a miss.
GetFellBack ==
    /\ req.op = "get_product"
    /\ calls = <<>> \/ ~calls[1].ok \/ calls[1].n = 0

\* C1: whenever the listing's store query fails or returns nothing, the
\* response is exactly the sample items whose category equals the supplied
\* category (any supplied string) and whose featured flag equals the supplied
\* flag, in catalog order; featured=false alone returns only non-featured
\* items and differs from the unfiltered result.
C1_FallbackFiltersExactly ==
    ListFellBack =>
        /\ resp = [status |-> 200, body |-> ExactSubset(req.category, req.featured)]
        /\ (req.category = None /\ req.featured = Some(FALSE)) =>
               /\ \A i \in 1..Len(resp.body) : resp.body[i].featured = FALSE
               /\ resp.body # ExactSubset(None, None)

\* C1, for the categories the code treats as supplied: the same statement
\* with an empty-string category read as no category filter.
C1_FallbackFiltersNonEmpty ==
    ListFellBack =>
        resp = [status |-> 200,
                body |-> ExactSubset(IF req.category = Some("") THEN None ELSE req.category,
                                     req.featured)]

C1_EmptyCategoryFallback ==
    /\ ListFellBack
    /\ req.category = Some("")
    /\ req.featured = None
    /\ Len(resp.body) = 5

\* C2: with the store unavailable, a detail lookup returns the sample record
\* with exactly that id for each of the 5 sample ids, and NotFound (404,
\* "Product not found") for every other id; nothing else.
C2_DetailWithStoreDown ==
    (req.op = "get_product" /\ ~storeUp) =>
        /\ Cardinality(StaticIds) = 5
        /\ req.product_id \in StaticIds =>
               /\ resp.status = 200
               /\ resp.body._id = req.product_id
               /\ \E i \in 1..5 : resp.body = sample_products[i]
        /\ req.product_id \notin StaticIds =>
               resp = [status |-> 404, detail |-> "Product not found"]

C2_RoyalChronoServedWithStoreDown ==
    /\ req.op = "get_product"
    /\ ~storeUp
    /\ req.product_id = "demo-royal-chrono"
    /\ resp.status = 200
    /\ resp.body.title = "Royal Chrono 42mm"

\* C3: for an id of store-native shape, a store lookup that misses or raises
\* is not surfaced: the outcome is that of the sample-catalog search alone
\* (the exact-id match, otherwise NotFound).
C3_NativeIdFallsThrough ==
    (/\ req.op = "get_product"
     /\ is_valid(req.product_id)
     /\ calls # <<>>
     /\ ~calls[1].ok \/ calls[1].n = 0) =>
        /\ resp = StaticOutcome(req.product_id)
        /\ resp.status \in {200, 404}

C3_LookupRaisedThenNotFound ==
    /\ req.op = "get_product"
    /\ is_valid(req.product_id)
    /\ calls # <<>>
    /\ ~calls[1].ok
    /\ resp.status = 404

\* C4: every step in which create_product's insert fails answers 500 with
\* the failure's message, never an id, and leaves the product collection as
\* it was.
C4_CreateFailureSurfaces ==
    [][(/\ req'.op = "create_product"
        /\ calls' # <<>>
        /\ ~calls'[1].ok) =>
           /\ resp' = [status |-> 500, detail |-> calls'[1].msg]
           /\ calls'[1].msg # ""
           /\ product' = product]_vars

C4_CreateFailed ==
    /\ req.op = "create_product"
    /\ ~calls[1].ok
    /\ resp.status = 500
    /\ product # <<>>

\* C5: checkout and distributor_apply never fail on a store error.  When the
\* insert fails the response is exactly the fixed demo acknowledgment and
\* the collection is unchanged; when it succeeds the response carries the
\* id of the document just stored, with the same status value.
C5_DegradedWrites ==
    [][/\ (req'.op = "checkout" /\ ~calls'[1].ok) =>
              /\ resp' = [status |-> 200,
                          body |-> [status |-> "success", order_id |-> "demo-order-1234"]]
              /\ order' = order
       /\ (req'.op = "checkout" /\ calls'[1].ok) =>
              /\ Len(order') = Len(order) + 1
              /\ SubSeq(order', 1, Len(order)) = order
              /\ resp' = [status |-> 200,
                          body |-> [status |-> "success",
                                    order_id |-> order'[Len(order')]._id.oid]]
              /\ order'[Len(order')].customer_name = req'.payload.customer_name
       /\ (req'.op = "distributor_apply" /\ ~calls'[1].ok) =>
              /\ resp' = [status |-> 200,
                          body |-> [status |-> "received",
                                    application_id |-> "demo-application-1234"]]
              /\ distributorapplication' = distributorapplication
       /\ (req'.op = "distributor_apply" /\ calls'[1].ok) =>
              /\ Len(distributorapplication') = Len(distributorapplication) + 1
              /\ SubSeq(distributorapplication', 1, Len(distributorapplication))
                     = distributorapplication
              /\ resp' = [status |-> 200,
                          body |-> [status |-> "received",
                                    application_id |->
                                        distributorapplication'[Len(distributorapplication')]._id.oid]]
       /\ req'.op \in {"checkout", "distributor_apply"} =>
              /\ product' = product
              /\ Len(calls') = 1
      ]_vars

C5_CheckoutDegraded ==
    /\ req.op = "checkout"
    /\ ~calls[1].ok
    /\ resp.body.order_id = "demo-order-1234"

\* C6: a listing never returns more than 100 records, whatever the filters
\* and however many products the store holds.
C6_ListAtMost100 ==
    req.op = "list_products" => Len(resp.body) <= 100

C6_FullPageFromLargerStore ==
    /\ req.op = "list_products"
    /\ Len(product) > 100
    /\ calls[1].ok
    /\ Len(resp.body) = 100

\* C7: a fallback read returns what an earlier fallback read with the same
\* filters (or the same id) returned, whatever was executed in between.
C7_FallbackStable ==
    (/\ memo # <<>>
     /\ ListFellBack \/ GetFellBack
     /\ Key(req) = memo[1].key) =>
        resp = memo[1].resp

C7_RepeatedAfterWrites ==
    /\ memo # <<>>
    /\ memo[1].atStart
    /\ Writes > 0
    /\ product # <<>>
    /\ ListFellBack
    /\ Key(req) = memo[1].key
    /\ resp.body # <<>>

\* C8: a request performs at most one store operation; after a failed one
\* no further operation is made.
C8_AtMostOneStoreOperation ==
    /\ Len(calls) <= 1
    /\ req.op \in {"list_products", "create_product", "checkout", "distributor_apply"} =>
           Len(calls) = 1

C8_FailedOnceNotRetried ==
    /\ req.op = "distributor_apply"
    /\ Len(calls) = 1
    /\ ~calls[1].ok
    /\ storeUp

\* The documents of the product collection that the listing's store query
\* selects, by the filters as the listing sends them.
Selected ==
    SelectSeq(product,
              LAMBDA d : /\ Truthy(req.category) => d.category = req.category[1]
                         /\ req.featured # None => d.featured = req.featured[1])

C10_IdSpacesDisjoint ==
    /\ \A i \in 1..Len(sample_products) : ~is_valid(sample_products[i]._id)
    /\ (req.op = "get_product" /\ req.product_id \in StaticIds) =>
           /\ calls = <<>>
           /\ resp = StaticOutcome(req.product_id)
           /\ resp.status = 200

C10_SampleServedBesideStore ==
    /\ req.op = "get_product"
    /\ req.product_id = "demo-silk-sofa"
    /\ storeUp
    /\ Len(product) > 0
    /\ resp.status = 200
    /\ resp.body.category = "home"

=============================================================================
